---- MODULE Spec2Model ----
(***************************************************************************)
(* Model of bctl (src/bluetooth/main.go): the orchestrating routine        *)
(* (Init, Discover, Connect, deferred Wait, deferred cancel), the scanner  *)
(* goroutine started by Discover, the sync.Once guarded cancel closure,    *)
(* the retry ticker of Connect, and the environment (event stream of the   *)
(* scan, the context's cancellation, outcomes of the D-Bus calls).         *)
(*                                                                         *)
(* Two goroutines: "main" (the cli Action) and "scanner" (the go func of   *)
(* Discover).  pc[p] is the position of goroutine p, ret[p] the position   *)
(* it continues at when its call of the cancel closure returns.            *)
(*                                                                         *)
(* Go's select is modelled as the runtime executes it: if some case is     *)
(* ready on entry one of the ready cases is chosen nondeterministically;   *)
(* otherwise the goroutine parks and the first event that makes a case     *)
(* ready wakes it with that case.                                          *)
(*                                                                         *)
(* Time: a tick of the retry ticker is delivered only while time passes    *)
(* in Connect, that is during the D-Bus calls of an attempt or while the   *)
(* loop is parked in its select.  The statements between NewTicker and the *)
(* first select do not block, so no tick is pending at the first select.   *)
(***************************************************************************)
EXTENDS Naturals, Sequences, FiniteSets

\* ---------------------------------------------------------------- bounds
MaxEvents == 3
MaxAttempts == 3

\* ------------------------------------------------------------- constants
deviceMAC == "AA:BB:CC:DD:EE:FF"
OtherMAC == "11:22:33:44:55:66"
BadPath == "badpath"
BadAddr == "badaddr"
EventKinds == {deviceMAC, OtherMAC, BadPath, BadAddr}
Procs == {"main", "scanner"}
NoHolder == "free"
AttemptPCs == {"a_device", "a_paired", "a_pair", "a_conn"}
OncePCs == {"o_load", "o_lock", "o_check", "o_f", "o_fret", "o_store", "o_unlock"}

VARIABLES
  pc, ret,
  ctxCancelled,
  startErr, doneMade,
  sent, targets, cur, streamClosed, matched, skipped, doneCloses, scannerCancels,
  onceDone, mutex, stopRunning, stopCalls, stopper, scanStopped,
  cancelCalls, cancelReturned,
  tickerOn, tickPending, onceTok, lastErr, connectResult, logs, triggers,
  lateAttempts, ctxAtEntry, ticksFired, ticksDropped, steps,
  waitResult, waitEntry,
  first

scanVars == <<sent, targets, cur, streamClosed, matched, skipped, doneCloses,
              scannerCancels>>
onceVars == <<onceDone, mutex, stopRunning, stopCalls, stopper, scanStopped,
              cancelCalls, cancelReturned>>
connVars == <<tickerOn, tickPending, onceTok, lastErr, connectResult, logs,
              triggers, lateAttempts, ctxAtEntry, ticksFired, ticksDropped, steps>>
\* The tick channel of the running Connect call and the counters of that call.
callVars == <<tickPending, lateAttempts, ticksFired, ticksDropped>>
waitVars == <<waitResult, waitEntry>>
vars == <<pc, ret, ctxCancelled, startErr, doneMade, scanVars, onceVars, connVars,
          waitVars, first>>

Init ==
  /\ pc = [p \in Procs |-> IF p = "main" THEN "m_init" ELSE "s_off"]
  /\ ret = [p \in Procs |-> "none"]
  /\ ctxCancelled = FALSE
  /\ startErr = "none"
  /\ doneMade = FALSE
  /\ sent = 0
  /\ targets = 0
  /\ cur = "none"
  /\ streamClosed = FALSE
  /\ matched = FALSE
  /\ skipped = FALSE
  /\ doneCloses = 0
  /\ scannerCancels = 0
  /\ onceDone = 0
  /\ mutex = NoHolder
  /\ stopRunning = FALSE
  /\ stopCalls = 0
  /\ stopper = "none"
  /\ scanStopped = FALSE
  /\ cancelCalls = 0
  /\ cancelReturned = 0
  /\ tickerOn = FALSE
  /\ tickPending = FALSE
  /\ onceTok = FALSE
  /\ lastErr = "none"
  /\ steps = <<>>
  /\ connectResult = "none"
  /\ logs = 0
  /\ triggers = <<>>
  /\ lateAttempts = 0
  /\ ctxAtEntry = FALSE
  /\ ticksFired = 0
  /\ ticksDropped = 0
  /\ waitResult = "none"
  /\ waitEntry = "none"
  /\ first = "none"

\* The first of the two events {context cancelled, completion signal closed}.
FirstAfter(ev) == IF first = "none" THEN ev ELSE first

\* ------------------------------------------------- the cancel closure
\* cancelOnce (lines 118-123): func() { once.Do(cancel) }.  sync.Once.Do:
\*   if done == 0 { m.Lock(); defer m.Unlock();
\*                  if done == 0 { defer done.Store(1); f() } }

\* A goroutine at pc[p] calls the closure and continues at cont afterwards.
CallCancelOnce(p, cont) ==
  /\ pc' = [pc EXCEPT ![p] = "o_load"]
  /\ ret' = [ret EXCEPT ![p] = cont]
  /\ cancelCalls' = cancelCalls + 1

\* The call of the closure returns to its caller.
ReturnFromCancelOnce(p) ==
  /\ pc' = [pc EXCEPT ![p] = ret[p]]
  /\ cancelReturned' = cancelReturned + 1

\* Once.Do's fast path: the function has already run to completion.
FastPath(done) == done # 0

OnceLoad(p) ==
  /\ pc[p] = "o_load"
  /\ IF FastPath(onceDone)
       THEN ReturnFromCancelOnce(p)
       ELSE /\ pc' = [pc EXCEPT ![p] = "o_lock"]
            /\ UNCHANGED cancelReturned
  /\ UNCHANGED <<ret, ctxCancelled, startErr, doneMade, scanVars, connVars, waitVars, first,
                 onceDone, mutex, stopRunning, stopCalls, stopper, scanStopped,
                 cancelCalls>>

\* m.Lock(): blocks while another goroutine is inside doSlow.
OnceLock(p) ==
  /\ pc[p] = "o_lock"
  /\ mutex = NoHolder
  /\ mutex' = p
  /\ pc' = [pc EXCEPT ![p] = "o_check"]
  /\ UNCHANGED <<ret, ctxCancelled, startErr, doneMade, scanVars, connVars, waitVars, first,
                 onceDone, stopRunning, stopCalls, stopper, scanStopped,
                 cancelCalls, cancelReturned>>

\* Faulty variant: no second check under the lock.
DoSlowRunsAlways(done) == TRUE

\* doSlow's second check, under the lock: run f only if it has not run.
DoSlowRuns(done) == done = 0

\* Faulty variant: the flag is set before f runs (a compare-and-swap Once).
DoneBeforeFEarly(done) == 1

\* The flag while f runs: Store(1) is deferred, so it is still unchanged.
DoneBeforeF(done) == done

OnceCheck(p) ==
  /\ pc[p] = "o_check"
  /\ IF DoSlowRuns(onceDone)
       THEN /\ pc' = [pc EXCEPT ![p] = "o_f"]
            /\ onceDone' = DoneBeforeF(onceDone)
       ELSE /\ pc' = [pc EXCEPT ![p] = "o_unlock"]
            /\ UNCHANGED onceDone
  /\ UNCHANGED <<ret, ctxCancelled, startErr, doneMade, scanVars, connVars, waitVars, first,
                 mutex, stopRunning, stopCalls, stopper, scanStopped,
                 cancelCalls, cancelReturned>>

\* f() = cancel, the stop function api.Discover returned (line 109): the
\* request to stop the scan is issued ...
StopBegin(p) ==
  /\ pc[p] = "o_f"
  /\ stopCalls' = stopCalls + 1
  /\ stopRunning' = TRUE
  /\ stopper' = p
  /\ pc' = [pc EXCEPT ![p] = "o_fret"]
  /\ UNCHANGED <<ret, ctxCancelled, startErr, doneMade, scanVars, connVars, waitVars, first,
                 onceDone, mutex, scanStopped, cancelCalls, cancelReturned>>

\* ... and completes: the scan is stopped.
StopEnd(p) ==
  /\ pc[p] = "o_fret"
  /\ stopRunning' = FALSE
  /\ scanStopped' = TRUE
  /\ pc' = [pc EXCEPT ![p] = "o_store"]
  /\ UNCHANGED <<ret, ctxCancelled, startErr, doneMade, scanVars, connVars, waitVars, first,
                 onceDone, mutex, stopCalls, stopper, cancelCalls, cancelReturned>>

\* deferred done.Store(1)
OnceStore(p) ==
  /\ pc[p] = "o_store"
  /\ onceDone' = 1
  /\ pc' = [pc EXCEPT ![p] = "o_unlock"]
  /\ UNCHANGED <<ret, ctxCancelled, startErr, doneMade, scanVars, connVars, waitVars, first,
                 mutex, stopRunning, stopCalls, stopper, scanStopped,
                 cancelCalls, cancelReturned>>

\* deferred m.Unlock(), then Do and the closure return.
OnceUnlock(p) ==
  /\ pc[p] = "o_unlock"
  /\ mutex' = NoHolder
  /\ ReturnFromCancelOnce(p)
  /\ UNCHANGED <<ret, ctxCancelled, startErr, doneMade, scanVars, connVars, waitVars, first,
                 onceDone, stopRunning, stopCalls, stopper, scanStopped,
                 cancelCalls>>

\* The stream of discovered devices is closed once the scan is stopped (the
\* library closes the channel api.Discover returned, line 109).
StreamClose ==
  /\ scanStopped
  /\ ~streamClosed
  /\ streamClosed' = TRUE
  /\ UNCHANGED <<pc, ret, ctxCancelled, startErr, doneMade, sent, targets, cur, matched, skipped,
                 doneCloses, scannerCancels, onceVars, connVars, waitVars, first>>

\* ------------------------------------------------------------- Wait
\* Faulty variant: Wait reports no error on either case.
WaitResultNil(case) == "nil"

\* Wait's result for the select case taken (lines 155-160).
WaitResult(case) == IF case = "ctx" THEN "ctxErr" ELSE "nil"

\* Faulty variant: the routine returns without the deferred cancel.
AfterWaitReturn == "m_returned"

\* Deferred calls run last-in first-out: after the deferred Wait (line 81)
\* the deferred cancel (line 80) runs.
AfterWait == "m_dcancel"

\* ---------------------------------------------------------- the scanner
\* Faulty variant: the comparison never succeeds.
AddrNeverMatches(addr) == FALSE

\* Faulty variant: the comparison always succeeds.
AddrAlwaysMatches(addr) == TRUE

\* deviceAddr == cli.deviceMAC.String() (line 144)
AddrMatches(addr) == addr = deviceMAC

\* Faulty variant: the signal is closed on the match path only.
ClosesDoneOnMatch(m) == m

\* defer close(done) (line 126) runs on every exit of the goroutine.
ClosesDone(m) == TRUE

\* Faulty variant: the scanner has no deferred call of the cancel closure.
FirstDeferredIsClose == "s_close"

\* Where the scanner goroutine goes when its function returns: the deferred
\* cancelOnce() (line 127) runs first, close(done) (line 126) after it.
FirstDeferred == "s_defer"

\* for gotDev := range devices (line 131): receive the next event the scan
\* delivers, or leave the loop when the stream is closed.  sent counts the
\* events delivered and targets those of them that carry the target address.
ScanRecv ==
  /\ pc["scanner"] = "s_recv"
  /\ IF streamClosed
       THEN /\ pc' = [pc EXCEPT !["scanner"] = FirstDeferred]
            /\ UNCHANGED <<cur, sent, targets>>
       ELSE /\ sent < MaxEvents
            /\ \E e \in EventKinds :
                 /\ cur' = e
                 /\ targets' = IF e = deviceMAC THEN targets + 1 ELSE targets
            /\ sent' = sent + 1
            /\ pc' = [pc EXCEPT !["scanner"] = "s_newdev"]
  /\ UNCHANGED <<ret, ctxCancelled, startErr, doneMade, streamClosed, matched, skipped,
                 doneCloses, scannerCancels, onceVars, connVars, waitVars, first>>

\* Faulty variant: a resolution error ends the scanner (return, not continue).
OnResolveErrorReturn == "s_defer"

\* continue (lines 136, 141): the event is skipped, the loop goes on.
OnResolveError == "s_recv"

\* device.NewDevice1(gotDev.Path) (lines 133-137).  gotDev is the loop's
\* variable: cur is "none" again when the iteration ends.
ScanNewDevice ==
  /\ pc["scanner"] = "s_newdev"
  /\ IF cur = BadPath
       THEN /\ pc' = [pc EXCEPT !["scanner"] = OnResolveError]
            /\ cur' = "none"
            /\ skipped' = TRUE
       ELSE /\ pc' = [pc EXCEPT !["scanner"] = "s_getaddr"]
            /\ UNCHANGED <<cur, skipped>>
  /\ UNCHANGED <<ret, ctxCancelled, startErr, doneMade, sent, targets, streamClosed,
                 matched, doneCloses, scannerCancels, onceVars, connVars, waitVars,
                 first>>

\* d.GetAddress() and the comparison with the target (lines 138-147)
ScanGetAddress ==
  /\ pc["scanner"] = "s_getaddr"
  /\ IF cur = BadAddr
       THEN /\ pc' = [pc EXCEPT !["scanner"] = OnResolveError]
            /\ cur' = "none"
            /\ skipped' = TRUE
            /\ UNCHANGED matched
       ELSE IF AddrMatches(cur)
       THEN /\ matched' = TRUE
            /\ pc' = [pc EXCEPT !["scanner"] = FirstDeferred]
            /\ UNCHANGED <<cur, skipped>>
       ELSE /\ pc' = [pc EXCEPT !["scanner"] = "s_recv"]
            /\ cur' = "none"
            /\ UNCHANGED <<matched, skipped>>
  /\ UNCHANGED <<ret, ctxCancelled, startErr, doneMade, sent, targets, streamClosed,
                 doneCloses, scannerCancels, onceVars, connVars, waitVars, first>>

\* defer cancelOnce() (line 127)
ScanDeferCancel ==
  /\ pc["scanner"] = "s_defer"
  /\ CallCancelOnce("scanner", "s_close")
  /\ scannerCancels' = scannerCancels + 1
  /\ UNCHANGED <<ctxCancelled, startErr, doneMade, sent, targets, cur, streamClosed, matched, skipped,
                 doneCloses, onceDone, mutex, stopRunning, stopCalls, stopper,
                 scanStopped, cancelReturned, connVars, waitVars, first>>

\* defer close(done) (line 126); a Wait parked in its select is woken by it.
ScanCloseDone ==
  /\ pc["scanner"] = "s_close"
  /\ IF ClosesDone(matched)
       THEN /\ doneCloses' = doneCloses + 1
            /\ first' = FirstAfter("done")
            /\ IF pc["main"] = "w_parked"
                 THEN /\ waitResult' = WaitResult("done")
                      /\ pc' = [pc EXCEPT !["scanner"] = "s_done", !["main"] = AfterWait]
                 ELSE /\ pc' = [pc EXCEPT !["scanner"] = "s_done"]
                      /\ UNCHANGED waitResult
       ELSE /\ pc' = [pc EXCEPT !["scanner"] = "s_done"]
            /\ UNCHANGED <<doneCloses, first, waitResult>>
  /\ UNCHANGED <<ret, ctxCancelled, startErr, doneMade, sent, targets, cur, streamClosed,
                 matched, skipped, scannerCancels, onceVars, connVars, waitEntry>>

\* ------------------------------------------------------------- Connect
\* Faulty variant: the immediate-fire token is never put in the channel.
ImmediateTokenMissing == FALSE

\* once <- struct{}{} (lines 172-173): the channel holds the token.
ImmediateToken == TRUE

\* Faulty variant: the explicit cancel is made whatever Connect returned.
AfterConnectAlwaysCancel(res) == "m_cancel"

\* Where the Action continues when Connect returns res (lines 83-87): the
\* explicit cancel on success, the deferred calls on an error.
AfterConnect(res) == IF res = "nil" THEN "m_cancel" ELSE "m_wait"

\* Connect returns res; the deferred tick.Stop() (line 171) runs.  The tick
\* channel is a local of the call and the counters lateAttempts, ticksFired
\* and ticksDropped are those of the call: they end with it.
ConnectReturn(res) ==
  /\ connectResult' = res
  /\ tickerOn' = FALSE
  /\ tickPending' = FALSE
  /\ lateAttempts' = 0
  /\ ticksFired' = 0
  /\ ticksDropped' = 0
  /\ pc' = [pc EXCEPT !["main"] = AfterConnect(res)]

\* Faulty variant: the cancellation case reports no error.
CtxCaseResultNil == "nil"

\* case <-ctx.Done(): return ctx.Err() (lines 182-183)
CtxCaseResult == "ctxErr"

\* Faulty variant: a cancellation also ends Connect during an attempt.
CancelWakesInFlight(at) == at \in {"c_parked"} \cup AttemptPCs

\* A cancellation is seen by Connect only in its select (lines 181-183): it
\* wakes the loop when it is parked there, and no other position.
CancelWakes(at) == at = "c_parked"

\* Faulty variant: the attempt's error is returned to the caller.
LoopResultSurfaces(err) == err

\* Faulty variant: the test of the attempt's error is inverted.
LoopResultInverted(err) == IF err = "nil" THEN "none" ELSE "nil"

\* What the loop does with the attempt's error (lines 188-192): "none" is
\* to log and go round again, anything else is Connect's result.
LoopResult(err) == IF err # "nil" THEN "none" ELSE "nil"

\* cli.connect returned err (lines 188-192); steps, the steps of the attempt
\* that have succeeded so far, ends with the attempt.
AttemptEnds(err) ==
  /\ lastErr' = err
  /\ steps' = <<>>
  /\ IF LoopResult(err) = "none"
       THEN /\ logs' = logs + 1
            /\ pc' = [pc EXCEPT !["main"] = "c_select"]
            /\ UNCHANGED <<connectResult, tickerOn, callVars>>
       ELSE /\ ConnectReturn(LoopResult(err))
            /\ UNCHANGED logs

\* The select fell through on a tick or on the token: cli.connect is called.
\* lateAttempts counts the attempts started with the context cancelled.
StartAttempt(trig) ==
  /\ triggers' = Append(triggers, trig)
  /\ lateAttempts' = IF ctxCancelled THEN lateAttempts + 1 ELSE lateAttempts
  /\ pc' = [pc EXCEPT !["main"] = "a_device"]

\* The cases of Connect's select that are ready (lines 181-186).
ConnectReady ==
  (IF ctxCancelled THEN {"ctx"} ELSE {}) \cup
  (IF tickPending THEN {"tick"} ELSE {}) \cup
  (IF onceTok THEN {"once"} ELSE {})

\* The cases of Wait's select that are ready (lines 155-160).
WaitReady ==
  (IF ctxCancelled THEN {"ctx"} ELSE {}) \cup
  (IF doneCloses > 0 THEN {"done"} ELSE {})

\* ------------------------------------------------- the cli Action (main)
\* tool.Init() (lines 72-74, 97-104)
MainInit ==
  /\ pc["main"] = "m_init"
  /\ \E ok \in BOOLEAN :
       IF ok THEN /\ pc' = [pc EXCEPT !["main"] = "m_discover"]
                  /\ UNCHANGED startErr
             ELSE /\ pc' = [pc EXCEPT !["main"] = "m_returned"]
                  /\ startErr' = "init"
  /\ UNCHANGED <<ret, ctxCancelled, doneMade, scanVars, onceVars, connVars, waitVars, first>>

\* Faulty variant: the error of Discover is ignored and the Action goes on.
AfterDiscoverErrIgnored == "c_ticker"

\* if err != nil { return err } (lines 77-79)
AfterDiscoverErr == "m_returned"

\* tool.Discover(ctx) (lines 76-79, 106-152): on success the completion
\* signal is made, the scanner goroutine started and the cancel closure
\* returned; when api.Discover fails none of this happens.
MainDiscover ==
  /\ pc["main"] = "m_discover"
  /\ \E ok \in BOOLEAN :
       IF ok THEN /\ pc' = [pc EXCEPT !["main"] = "c_ticker", !["scanner"] = "s_recv"]
                  /\ doneMade' = TRUE
                  /\ UNCHANGED startErr
             ELSE /\ pc' = [pc EXCEPT !["main"] = AfterDiscoverErr]
                  /\ startErr' = "discover"
                  /\ UNCHANGED doneMade
  /\ UNCHANGED <<ret, ctxCancelled, scanVars, onceVars, connVars, waitVars, first>>

\* Connect's entry (lines 169-173): the ticker and the immediate token.
ConnectEntry ==
  /\ pc["main"] = "c_ticker"
  /\ tickerOn' = TRUE
  /\ onceTok' = ImmediateToken
  /\ ctxAtEntry' = ctxCancelled
  /\ pc' = [pc EXCEPT !["main"] = "c_adapter"]
  /\ UNCHANGED <<ret, ctxCancelled, startErr, doneMade, scanVars, onceVars, waitVars, first,
                 tickPending, lastErr, connectResult, logs, triggers, steps, lateAttempts,
                 ticksFired, ticksDropped>>

\* cli.adapter.GetAdapterID() (lines 175-178)
ConnectAdapter ==
  /\ pc["main"] = "c_adapter"
  /\ \E ok \in BOOLEAN :
       IF ok THEN /\ pc' = [pc EXCEPT !["main"] = "c_select"]
                  /\ UNCHANGED <<connectResult, tickerOn, callVars>>
             ELSE ConnectReturn("adapterErr")
  /\ UNCHANGED <<ret, ctxCancelled, startErr, doneMade, scanVars, onceVars, waitVars,
                 first, onceTok, lastErr, logs, triggers, steps, ctxAtEntry>>

\* The select of the retry loop (lines 181-186).  A new iteration begins: the
\* err of the previous one (line 188) is out of scope.
ConnectSelect ==
  /\ pc["main"] = "c_select"
  /\ lastErr' = "none"
  /\ UNCHANGED steps
  /\ IF ConnectReady = {}
       THEN /\ pc' = [pc EXCEPT !["main"] = "c_parked"]
            /\ UNCHANGED <<connectResult, tickerOn, callVars, onceTok, triggers>>
       ELSE \E c \in ConnectReady :
              \/ /\ c = "ctx"
                 /\ ConnectReturn(CtxCaseResult)
                 /\ UNCHANGED <<onceTok, triggers>>
              \/ /\ c = "tick"
                 /\ tickPending' = FALSE
                 /\ StartAttempt("tick")
                 /\ UNCHANGED <<connectResult, tickerOn, onceTok, ticksFired,
                                ticksDropped>>
              \/ /\ c = "once"
                 /\ onceTok' = FALSE
                 /\ StartAttempt("once")
                 /\ UNCHANGED <<connectResult, tickerOn, tickPending, ticksFired,
                                ticksDropped>>
  /\ UNCHANGED <<ret, ctxCancelled, startErr, doneMade, scanVars, onceVars, waitVars,
                 first, logs, ctxAtEntry>>

\* device.NewDevice(adapterID, mac) (lines 197-200)
AttemptDevice ==
  /\ pc["main"] = "a_device"
  /\ \E ok \in BOOLEAN :
       IF ok THEN /\ pc' = [pc EXCEPT !["main"] = "a_paired"]
                  /\ steps' = Append(steps, "device")
                  /\ UNCHANGED <<lastErr, logs, connectResult, tickerOn, callVars>>
             ELSE AttemptEnds("deviceErr")
  /\ UNCHANGED <<ret, ctxCancelled, startErr, doneMade, scanVars, onceVars, waitVars,
                 first, onceTok, triggers, ctxAtEntry>>

\* Faulty variant: the connect request follows the query whatever it reported.
NextAfterPairedSkips(r) == "a_conn"

\* if !paired { d.Pair() } (lines 206-210), then d.Connect() (line 212).
NextAfterPaired(r) == IF r = "paired" THEN "a_conn" ELSE "a_pair"

\* d.GetPaired() (lines 202-205)
AttemptPaired ==
  /\ pc["main"] = "a_paired"
  /\ \E r \in {"err", "paired", "unpaired"} :
       IF r = "err"
         THEN AttemptEnds("pairedErr")
         ELSE /\ pc' = [pc EXCEPT !["main"] = NextAfterPaired(r)]
              /\ steps' = Append(steps, r)
              /\ UNCHANGED <<lastErr, logs, connectResult, tickerOn, callVars>>
  /\ UNCHANGED <<ret, ctxCancelled, startErr, doneMade, scanVars, onceVars, waitVars,
                 first, onceTok, triggers, ctxAtEntry>>

\* d.Pair() (lines 207-209)
AttemptPair ==
  /\ pc["main"] = "a_pair"
  /\ \E ok \in BOOLEAN :
       IF ok THEN /\ pc' = [pc EXCEPT !["main"] = "a_conn"]
                  /\ steps' = Append(steps, "pair")
                  /\ UNCHANGED <<lastErr, logs, connectResult, tickerOn, callVars>>
             ELSE AttemptEnds("pairErr")
  /\ UNCHANGED <<ret, ctxCancelled, startErr, doneMade, scanVars, onceVars, waitVars,
                 first, onceTok, triggers, ctxAtEntry>>

\* d.Connect() (lines 212-217)
AttemptConn ==
  /\ pc["main"] = "a_conn"
  /\ \E ok \in BOOLEAN : AttemptEnds(IF ok THEN "nil" ELSE "connErr")
  /\ UNCHANGED <<ret, ctxCancelled, startErr, doneMade, scanVars, onceVars, waitVars,
                 first, onceTok, triggers, ctxAtEntry>>

\* cancel() after a successful Connect (line 87)
MainCancel ==
  /\ pc["main"] = "m_cancel"
  /\ CallCancelOnce("main", "m_wait")
  /\ UNCHANGED <<ctxCancelled, startErr, doneMade, scanVars, connVars, waitVars, first,
                 onceDone, mutex, stopRunning, stopCalls, stopper, scanStopped,
                 cancelReturned>>

\* defer tool.Wait(ctx.Context) (lines 81, 154-161)
MainWait ==
  /\ pc["main"] = "m_wait"
  /\ waitEntry' = IF WaitReady = {} THEN "neither"
                  ELSE IF WaitReady = {"ctx"} THEN "ctx"
                  ELSE IF WaitReady = {"done"} THEN "done" ELSE "both"
  /\ IF WaitReady = {}
       THEN /\ pc' = [pc EXCEPT !["main"] = "w_parked"]
            /\ UNCHANGED waitResult
       ELSE \E c \in WaitReady :
              /\ waitResult' = WaitResult(c)
              /\ pc' = [pc EXCEPT !["main"] = AfterWait]
  /\ UNCHANGED <<ret, ctxCancelled, startErr, doneMade, scanVars, onceVars, connVars, first>>

\* defer cancel() (line 80); when it returns the Action returns.
MainDeferCancel ==
  /\ pc["main"] = "m_dcancel"
  /\ CallCancelOnce("main", "m_returned")
  /\ UNCHANGED <<ctxCancelled, startErr, doneMade, scanVars, connVars, waitVars, first,
                 onceDone, mutex, stopRunning, stopCalls, stopper, scanStopped,
                 cancelReturned>>

\* ------------------------------------------------------ the environment
\* The context is cancelled; a select parked on ctx.Done() is woken by it
\* (Connect line 182, Wait line 156).
CtxCancel ==
  /\ ~ctxCancelled
  /\ pc["main"] # "m_returned"
  /\ ctxCancelled' = TRUE
  /\ first' = FirstAfter("ctx")
  /\ IF CancelWakes(pc["main"])
       THEN /\ ConnectReturn(CtxCaseResult)
            /\ UNCHANGED waitResult
       ELSE IF pc["main"] = "w_parked"
       THEN /\ waitResult' = WaitResult("ctx")
            /\ pc' = [pc EXCEPT !["main"] = AfterWait]
            /\ UNCHANGED <<connectResult, tickerOn, callVars>>
       ELSE UNCHANGED <<pc, waitResult, connectResult, tickerOn, callVars>>
  /\ UNCHANGED <<ret, startErr, doneMade, scanVars, onceVars, waitEntry,
                 onceTok, lastErr, logs, triggers, steps, ctxAtEntry>>

\* Faulty variant: a tick that finds the buffer full is lost unaccounted.
TickBufferedAlways(pending) == TRUE

\* tick.C is a channel with a buffer of one (time.NewTicker, line 170): a
\* tick is buffered if the buffer is empty.
TickBuffered(pending) == ~pending

\* The ticker delivers a tick on tick.C (lines 170, 184): to the parked
\* select directly, else into the channel's buffer of one; a tick that finds
\* the buffer full is dropped.  Ticks are delivered while time passes in
\* Connect: during an attempt or while the loop is parked.
TickFire ==
  /\ tickerOn
  /\ Len(triggers) < MaxAttempts
  /\ ticksFired < MaxAttempts
  /\ pc["main"] \in AttemptPCs \cup {"c_parked"}
  /\ ticksFired' = ticksFired + 1
  /\ UNCHANGED steps
  /\ IF pc["main"] = "c_parked"
       THEN /\ StartAttempt("tick")
            /\ UNCHANGED <<tickPending, ticksDropped>>
       ELSE IF TickBuffered(tickPending)
       THEN /\ tickPending' = TRUE
            /\ UNCHANGED <<pc, triggers, lateAttempts, ticksDropped>>
       ELSE /\ ticksDropped' = ticksDropped + 1
            /\ UNCHANGED <<pc, triggers, lateAttempts, tickPending>>
  /\ UNCHANGED <<ret, ctxCancelled, startErr, doneMade, scanVars, onceVars, waitVars, first,
                 tickerOn, onceTok, lastErr, connectResult, logs, ctxAtEntry>>

\* ------------------------------------------------------- specification
MainStep ==
  \/ MainInit \/ MainDiscover
  \/ ConnectEntry \/ ConnectAdapter \/ ConnectSelect
  \/ AttemptDevice \/ AttemptPaired \/ AttemptPair \/ AttemptConn
  \/ MainCancel \/ MainWait \/ MainDeferCancel

ScannerStep ==
  \/ ScanRecv \/ ScanNewDevice \/ ScanGetAddress \/ ScanDeferCancel \/ ScanCloseDone

OnceStep(p) ==
  \/ OnceLoad(p) \/ OnceLock(p) \/ OnceCheck(p)
  \/ StopBegin(p) \/ StopEnd(p) \/ OnceStore(p) \/ OnceUnlock(p)

Next ==
  \/ MainStep
  \/ ScannerStep
  \/ \E p \in Procs : OnceStep(p)
  \/ StreamClose
  \/ CtxCancel
  \/ TickFire

Spec == Init /\ [][Next]_vars

\* Both goroutines are scheduled fairly and the library closes the stream of
\* a stopped scan; the context and the outcomes of the calls are free.
FairSpec ==
  /\ Init /\ [][Next]_vars
  /\ WF_vars(MainStep)
  /\ WF_vars(ScannerStep)
  /\ \A p \in Procs : WF_vars(OnceStep(p))
  /\ WF_vars(StreamClose)
  /\ WF_vars(TickFire)

TypeOK ==
  /\ pc["main"] \in {"m_init", "m_discover", "c_ticker", "c_adapter", "c_select",
                     "c_parked", "m_cancel", "m_wait", "w_parked", "m_dcancel",
                     "m_returned"} \cup AttemptPCs \cup OncePCs
  /\ pc["scanner"] \in {"s_off", "s_recv", "s_newdev", "s_getaddr", "s_defer",
                        "s_close", "s_done"} \cup OncePCs
  /\ connectResult \in {"none", "nil", "ctxErr", "adapterErr",
                        "deviceErr", "pairedErr", "pairErr", "connErr"}
  /\ waitResult \in {"none", "nil", "ctxErr"}
  /\ mutex \in Procs \cup {NoHolder}
  /\ onceDone \in {0, 1}
  /\ sent \in 0..MaxEvents
  /\ steps \in Seq({"device", "paired", "unpaired", "pair"})
  /\ targets \in 0..sent

\* ================================================================ claims

\* C1: after a successful Discover, under every interleaving of the calls of
\* the cancel closure (explicit, deferred, scanner's), the stop operation is
\* executed at most once, and exactly once as soon as one call has returned.
C1_StopAtMostOnce ==
  /\ stopCalls <= 1
  /\ cancelReturned > 0 => stopCalls = 1

\* All three call sites have called, two of them concurrently.
C1_Witness ==
  /\ cancelCalls = 3
  /\ stopCalls = 1
  /\ pc["main"] \in OncePCs
  /\ pc["scanner"] \in OncePCs

\* C2: when the events delivered contain the target address once, however
\* many other events come before it, the scanner calls the cancel closure
\* once and closes the completion signal once, and it eventually does.
C2_MatchCompletes ==
  /\ [](targets = 1 =>
          /\ doneCloses <= 1
          /\ scannerCancels <= 1
          /\ pc["scanner"] = "s_done" => (doneCloses = 1 /\ scannerCancels = 1))
  /\ [](targets = 1 => <>(doneCloses = 1 /\ scannerCancels = 1))

\* The target was matched after two other events.
C2_Witness ==
  /\ matched
  /\ sent = 3
  /\ targets = 1
  /\ doneCloses = 1
  /\ scannerCancels = 1

\* C3: when no event delivered carries the target address and the caller's
\* cancel stops the scan, the completion signal is still closed, and it is
\* never closed twice.
C3_UnmatchedCompletes ==
  /\ [](doneCloses <= 1)
  /\ []((targets = 0 /\ stopper = "main" /\ scanStopped) => <>(doneCloses = 1))

\* The caller stopped the scan and the scanner ended without a match.
C3_Witness ==
  /\ ~matched
  /\ targets = 0
  /\ sent >= 1
  /\ stopper = "main"
  /\ doneCloses = 1

\* C4: when Connect returns no error after K failed attempts it has made
\* exactly K+1 attempts and logged exactly K retry messages, the last attempt
\* succeeded, and no attempt is made after Connect has returned.
C4_RetryCount ==
  /\ [](connectResult = "nil" =>
          /\ Len(triggers) = logs + 1
          /\ lastErr = "nil"
          /\ pc["main"] \notin AttemptPCs)
  /\ [][connectResult # "none" => (triggers' = triggers /\ logs' = logs)]_vars

\* Two failed attempts, then success, with the context never cancelled.
C4_Witness ==
  /\ connectResult = "nil"
  /\ ~ctxCancelled
  /\ logs = 2
  /\ Len(triggers) = 3

\* C5 as stated: called with a context already cancelled (adapter id
\* obtained), Connect returns the cancellation error without any attempt.
C5_Original ==
  (ctxAtEntry /\ connectResult \notin {"none", "adapterErr"}) =>
     (connectResult = "ctxErr" /\ triggers = <<>>)

\* C6: whenever the Action returns after a successful Discover, whatever
\* Connect returned, the stop operation has been executed to completion.
C6_StoppedOnReturn ==
  (pc["main"] = "m_returned" /\ startErr = "none") =>
     (stopCalls = 1 /\ ~stopRunning /\ scanStopped)

\* The Action returned on the error path of Connect.
C6_Witness ==
  /\ pc["main"] = "m_returned"
  /\ connectResult = "ctxErr"
  /\ stopper = "main"
  /\ scanStopped

\* C7 as stated: Connect returns no error, after an attempt whose connect
\* request succeeded, or the context's error, and nothing else.
C7_Original ==
  /\ connectResult \in {"none", "nil", "ctxErr"}
  /\ connectResult = "nil" => lastErr = "nil"

\* C7 amended: Connect returns no error (after an attempt whose connect
\* request succeeded), the context's error (the context being cancelled), or
\* the adapter-id error (before any attempt); never a per-attempt error.
C7_Amended ==
  /\ connectResult \in {"none", "nil", "ctxErr", "adapterErr"}
  /\ connectResult = "nil" => (lastErr = "nil" /\ triggers # <<>>)
  /\ connectResult = "ctxErr" => ctxCancelled
  /\ connectResult = "adapterErr" => triggers = <<>>

\* Connect returned the context's error after two swallowed attempt errors.
C7_Witness ==
  /\ connectResult = "ctxErr"
  /\ logs = 2
  /\ ctxCancelled
  /\ pc["main"] = "m_wait"

\* C8 as stated: Wait returns the result of whichever happened first, the
\* cancellation of the context or the closing of the completion signal.
C8_Original ==
  /\ waitResult = "ctxErr" => first = "ctx"
  /\ waitResult = "nil" => first = "done"

\* C8 amended: Wait returns the context's error only if the context is
\* cancelled and no error only if the signal is closed (so never while
\* neither has happened); unless both had already happened when Wait was
\* called, its result is that of the one that happened first.
C8_Amended ==
  /\ waitResult = "ctxErr" => ctxCancelled
  /\ waitResult = "nil" => doneCloses > 0
  /\ (waitResult # "none" /\ waitEntry # "both") =>
        /\ waitResult = "ctxErr" <=> first = "ctx"
        /\ waitResult = "nil" <=> first = "done"
  /\ pc["main"] \in {"m_dcancel", "m_returned"} /\ connectResult # "none"
        => waitResult # "none"

\* Both had happened when Wait was called, and Wait returned the later one.
C8_Witness ==
  /\ waitEntry = "both"
  /\ first = "done"
  /\ waitResult = "ctxErr"

\* C9: no call of the cancel closure, first, concurrent or later, returns
\* before the one stop operation has finished.
C9_ReturnAfterStop ==
  cancelReturned > 0 => (stopCalls >= 1 /\ ~stopRunning /\ scanStopped)

\* The scanner's call waited for the lock while main's call ran the stop and
\* is about to return.
C9_Witness ==
  /\ pc["scanner"] = "o_unlock"
  /\ mutex = "scanner"
  /\ stopper = "main"
  /\ cancelReturned >= 1

\* C10: the first attempt of Connect is triggered by the immediate token,
\* without the loop having waited; the token triggers one attempt only and
\* every later attempt is triggered by a tick.
C10_ImmediateFirst ==
  /\ \A i \in DOMAIN triggers : triggers[i] = IF i = 1 THEN "once" ELSE "tick"
  /\ pc["main"] = "c_parked" => triggers # <<>>
  /\ triggers # <<>> => ~onceTok

\* An attempt on the token followed by attempts on ticks.
C10_Witness ==
  /\ Len(triggers) = 3
  /\ triggers[1] = "once"
  /\ triggers[3] = "tick"

\* C11: when the adapter rejects the scan request Discover returns an error
\* and the run ends there: no cancel closure is returned or called, the
\* scanner goroutine is not started, no completion signal is made, Connect
\* is not called and the stop operation is never executed.
C11_DiscoverErrorAborts ==
  startErr = "discover" =>
    /\ pc["main"] = "m_returned"
    /\ pc["scanner"] = "s_off"
    /\ ~doneMade
    /\ doneCloses = 0
    /\ cancelCalls = 0
    /\ stopCalls = 0
    /\ ~scanStopped
    /\ ~tickerOn
    /\ connectResult = "none"
    /\ triggers = <<>>
    /\ waitResult = "none"

\* Discover failed and the Action has returned.
C11_Witness ==
  /\ startErr = "discover"
  /\ pc["main"] = "m_returned"

\* C12: when the context is cancelled while Connect is parked in its select
\* waiting for the next tick, Connect returns at once with the context's
\* error and without starting another attempt.
C12_CancelWhileWaiting ==
  [][(pc["main"] = "c_parked" /\ ~ctxCancelled /\ ctxCancelled') =>
        /\ connectResult' = "ctxErr"
        /\ triggers' = triggers
        /\ pc'["main"] = "m_wait"
        /\ ~tickerOn']_vars

\* Connect is parked after a failed attempt, the context not yet cancelled.
C12_Witness ==
  /\ pc["main"] = "c_parked"
  /\ ~ctxCancelled
  /\ logs = 1

\* C13 as stated: once the context is cancelled Connect starts at most one
\* further attempt before it returns.
C13_Original == lateAttempts <= 1

\* C14: a cancellation does not preempt an attempt that is in flight: the
\* attempt goes on, Connect returns the context's error only from its
\* select, and an attempt whose connect request succeeds makes Connect
\* return no error even though the context is cancelled.
C14_NoPreemption ==
  /\ [][(pc["main"] \in AttemptPCs /\ ~ctxCancelled /\ ctxCancelled') =>
          (pc' = pc /\ connectResult' = connectResult /\ triggers' = triggers)]_vars
  /\ [][(connectResult = "none" /\ connectResult' = "ctxErr") =>
          pc["main"] \in {"c_select", "c_parked"}]_vars
  /\ [][(pc["main"] = "a_conn" /\ lastErr' = "nil" /\ pc'["main"] # "a_conn") =>
          connectResult' = "nil"]_vars

\* The context was cancelled during an attempt that started before, and the
\* attempt has gone on to its connect request.
C14_Witness ==
  /\ pc["main"] = "a_conn"
  /\ ctxCancelled
  /\ lateAttempts = 0
  /\ connectResult = "none"

\* The attempts triggered by kind.
TriggeredBy(kind) == Cardinality({i \in DOMAIN triggers : triggers[i] = kind})

C16_AttemptOrder ==
  /\ [](/\ pc["main"] = "a_device" => steps = <<>>
        /\ pc["main"] = "a_paired" => steps = <<"device">>
        /\ pc["main"] = "a_pair" => steps = <<"device", "unpaired">>
        /\ pc["main"] = "a_conn" => steps \in {<<"device", "paired">>,
                                              <<"device", "unpaired", "pair">>}
        /\ pc["main"] \notin AttemptPCs => steps = <<>>)
  /\ [][(pc["main"] = "a_device" /\ pc'["main"] # "a_device") =>
          \/ pc'["main"] = "a_paired"
          \/ lastErr' = "deviceErr" /\ pc'["main"] = "c_select"]_vars
  /\ [][(pc["main"] = "a_paired" /\ pc'["main"] # "a_paired") =>
          \/ pc'["main"] \in {"a_pair", "a_conn"}
          \/ lastErr' = "pairedErr" /\ pc'["main"] = "c_select"]_vars
  /\ [][(pc["main"] = "a_pair" /\ pc'["main"] # "a_pair") =>
          \/ pc'["main"] = "a_conn"
          \/ lastErr' = "pairErr" /\ pc'["main"] = "c_select"]_vars
  /\ [][(pc["main"] = "a_conn" /\ pc'["main"] # "a_conn") =>
          \/ lastErr' = "nil" /\ connectResult' = "nil"
          \/ lastErr' = "connErr" /\ pc'["main"] = "c_select"]_vars
  /\ [][(pc["main"] \in AttemptPCs /\ lastErr' = "nil") =>
          (pc["main"] = "a_conn" \/ pc'["main"] = pc["main"])]_vars

\* The device was not paired, the pair request succeeded and the connect
\* request is about to be issued.
C16_Witness ==
  /\ pc["main"] = "a_conn"
  /\ steps = <<"device", "unpaired", "pair">>

\* C17: an event whose address cannot be resolved (NewDevice1 or GetAddress
\* fails) is skipped without aborting the scan: the scanner goes back to
\* receiving, it neither closes the completion signal nor invokes the cancel
\* capability, and a later event that carries the target address is matched.
C17_SkipUnresolvable ==
  /\ [][(/\ \/ pc["scanner"] = "s_newdev" /\ cur = BadPath
            \/ pc["scanner"] = "s_getaddr" /\ cur = BadAddr
         /\ pc'["scanner"] # pc["scanner"]) =>
          /\ pc'["scanner"] = "s_recv"
          /\ UNCHANGED <<doneCloses, scannerCancels, cancelCalls, matched>>]_vars
  /\ []((skipped /\ ~matched /\ ~streamClosed) =>
          (doneCloses = 0 /\ scannerCancels = 0))
  /\ []((skipped /\ cur = deviceMAC /\ pc["scanner"] \notin {"s_newdev", "s_getaddr"}) =>
          matched)

\* An unresolvable event was skipped and a later event matched the target.
C17_Witness ==
  /\ skipped
  /\ matched
  /\ doneCloses = 1

\* C18: on the first event whose resolved address equals the target address
\* the scanner stops consuming: no event is received after the matching one,
\* and the scanner does not stop on an earlier event that does not match (it
\* leaves its loop only on a match or when the stream is closed).
C18_StopsOnFirstMatch ==
  /\ [](matched => (cur = deviceMAC /\ targets = 1))
  /\ [][matched => (sent' = sent /\ cur' = cur)]_vars
  /\ [](pc["scanner"] \in {"s_defer", "s_close", "s_done"} \cup OncePCs =>
          (matched \/ streamClosed))
  /\ [][(pc["scanner"] = "s_getaddr" /\ cur = OtherMAC
           /\ pc'["scanner"] # "s_getaddr") =>
          (pc'["scanner"] = "s_recv" /\ ~matched')]_vars

\* The target came third, after two resolvable events of another address:
\* exactly three events were consumed when the scanner left its loop.
C18_Witness ==
  /\ matched
  /\ ~skipped
  /\ sent = 3
  /\ pc["scanner"] = "s_defer"
  /\ ~streamClosed

\* C19: in every reachable state, if the completion signal is closed the
\* stop operation has been executed to completion: the scanner has made its
\* call of the cancel closure before it closes the signal, so a Wait that
\* returns no error implies that the scan has been stopped.
C19_ClosedImpliesStopped ==
  /\ doneCloses > 0 =>
       (scannerCancels = 1 /\ stopCalls = 1 /\ ~stopRunning /\ scanStopped)
  /\ waitResult = "nil" => (doneCloses > 0 /\ scanStopped)

\* Wait returned no error on the signal closed by the scanner, which had run
\* the stop operation itself.
C19_Witness ==
  /\ waitResult = "nil"
  /\ stopper = "scanner"
  /\ doneCloses = 1
  /\ scanStopped

\* C20: when Connect returns an error the Action makes no call of the cancel
\* closure until the deferred Wait has returned; on the success path its
\* explicit cancel has been made, and has returned, before Wait is entered.
\* Consequently, after a Connect error with a context that is not cancelled,
\* the scan is stopped by nobody but the scanner: Wait returns, and the Action
\* with it, only on the signal the scanner closes after its own match.
C20_WaitBeforeCancel ==
  /\ (connectResult \notin {"none", "nil"} /\ waitResult = "none") =>
       cancelCalls = scannerCancels
  /\ (connectResult = "nil" /\ pc["main"] \in {"m_wait", "w_parked"}) =>
       (cancelCalls = scannerCancels + 1 /\ scanStopped)
  /\ (connectResult \notin {"none", "nil"} /\ ~ctxCancelled /\ waitResult = "none"
        /\ ~matched) =>
       (stopCalls = 0 /\ ~scanStopped /\ pc["main"] # "m_returned")
  /\ (connectResult \notin {"none", "nil"} /\ ~ctxCancelled /\ waitResult # "none") =>
       (waitResult = "nil" /\ stopper = "scanner" /\ matched)

\* The adapter lookup failed, the context was never cancelled, and the Action
\* returned once the scanner had matched and closed the signal.
C20_Witness ==
  /\ connectResult = "adapterErr"
  /\ ~ctxCancelled
  /\ matched
  /\ pc["main"] = "m_returned"

====
